---- MODULE Spec2Model ----
(***************************************************************************)
(* Model of src/index.ts: the HubSpot property management script.  One     *)
(* process runs main, which dispatches to one of three workflows:          *)
(* importProperties, deletePropertiesFromCSV, deleteGroupsFromCSV.  Every  *)
(* workflow is a chain of awaits; an action of the model is one resumption *)
(* of the script: a response (or a stream event, or a timer) arrives and   *)
(* the synchronous code runs up to the next await.  The remote store and   *)
(* the outcome of every remote call are the environment.                   *)
(***************************************************************************)
EXTENDS Integers, Sequences, FiniteSets, TLC

\* ------------------------------------------------------------------ bounds

\* Longest CSV file considered (number of data rows).
MaxRows == 2

\* Number of times the import is run on the same file (SpecTwice only).
MaxRuns == 2

\* ------------------------------------------------------- input alphabets

PropNames == {"a", "b"}
GroupNames == {"g", "h"}

\* JSON.parse(s) returns (TRUE) or throws a SyntaxError (FALSE).
JsonParses(s) == s = "[]"

\* JavaScript truthiness of a string: only the empty string is falsy.
Truthy(s) == s # ""

\* The rows a CSV file is made of, by the columns the script reads.  The
\* 'Options' column is empty, a JSON text ("[]") or a text JSON.parse
\* rejects ("[").
CsvRows ==
  { [name |-> "a", groupName |-> "g", options |-> "",   hubspotDefined |-> "false"],
    [name |-> "a", groupName |-> "h", options |-> "[",  hubspotDefined |-> "false"],
    [name |-> "b", groupName |-> "g", options |-> "[]", hubspotDefined |-> "false"],
    [name |-> "b", groupName |-> "h", options |-> "",   hubspotDefined |-> "true"] }

SeqsUpTo(S, n) == UNION { [1..k -> S] : k \in 0..n }

Range(s) == { s[k] : k \in DOMAIN s }

\* ------------------------------------------------------- the remote store

\* A remote property definition, by name: how many definitions carry the
\* name (0: none) and the flags of interface Property the script reads.
Absent   == [count |-> 0, hubspotDefined |-> FALSE, readOnly |-> FALSE]
Custom   == [count |-> 1, hubspotDefined |-> FALSE, readOnly |-> FALSE]
ReadOnly == [count |-> 1, hubspotDefined |-> FALSE, readOnly |-> TRUE]
BuiltIn  == [count |-> 1, hubspotDefined |-> TRUE,  readOnly |-> FALSE]

DefKinds == {Absent, Custom, ReadOnly, BuiltIn}


\* GET /properties/named/<name>: the definition when it exists and the call
\* succeeds, null otherwise (getPropertyDetails turns every error into null).
Null == [count |-> 0, hubspotDefined |-> FALSE, readOnly |-> FALSE, isNull |-> TRUE]

Details(d) == [count |-> d.count, hubspotDefined |-> d.hubspotDefined,
               readOnly |-> d.readOnly, isNull |-> FALSE]

\* ------------------------------------------------------------- variables

VARIABLES
  apiKey,             \* process.env.HUBSPOT_API_KEY is set
  command,            \* args[0]
  hasPath,            \* args[1] is given
  csv,                \* the rows of the CSV file at filePath
  reliable,           \* environment: no remote call fails for a transient reason
  defs,               \* remote store: the property definitions, by name
  grps,               \* remote store: the names of the property groups
  pc,                 \* the await the script is suspended at
  exitCode,           \* -1 while running
  inflight,           \* remote requests issued and not yet answered
  run,                \* the number of the current invocation
  cursor,             \* rows the CSV stream has emitted
  idx,                \* position of the running for-loop (1-based)
  properties,         \* importProperties: const properties
  existingProperty,   \* createOrUpdateProperty: existingProperty is non-null
  customProperties,   \* deletePropertiesFromCSV: names of const customProperties
  propertiesToDelete, \* deletePropertiesFromCSV: the Set, in insertion order
  failedDeletions,    \* deletePropertiesFromCSV: const failedDeletions
  details,            \* deletePropertiesFromCSV: const details
  groups,             \* deleteGroupsFromCSV: the Set, in insertion order
  log,                \* history: every request issued and every pause taken
  results,            \* history: what createOrUpdateProperty returned, per call
  protectedSeen,      \* history: names whose fetched details had readOnly true
  snapshotFailed,     \* history: the request of getAllCustomProperties failed
  defs0               \* history: the definitions the store held at the start

vars == <<apiKey, command, hasPath, csv, reliable, defs, grps, pc, exitCode,
          inflight, run, cursor, idx, properties, existingProperty,
          customProperties, propertiesToDelete, failedDeletions, details,
          groups, log, results, protectedSeen, snapshotFailed, defs0>>

inputVars == <<apiKey, command, hasPath, csv, reliable, defs0>>
importVars == <<properties, existingProperty, results>>
deleteVars == <<customProperties, propertiesToDelete, failedDeletions, details,
                protectedSeen>>

Commands == {"import", "delete-properties", "delete-groups"}

\* Outcomes of one remote call: TRUE it is answered 2xx, FALSE axios throws.
Outcomes == IF reliable THEN {TRUE} ELSE BOOLEAN

\* ------------------------------------------------------------------- Init

Init ==
  /\ apiKey \in BOOLEAN
  /\ command \in Commands \cup {"export"}
  /\ hasPath \in BOOLEAN
  /\ csv \in SeqsUpTo(CsvRows, MaxRows)
  /\ reliable \in BOOLEAN
  /\ defs \in [PropNames -> DefKinds]
  /\ grps \in SUBSET GroupNames
  /\ pc = "main"
  /\ exitCode = -1
  /\ inflight = {}
  /\ run = 1
  /\ cursor = 0
  /\ idx = 0
  /\ properties = <<>>
  /\ existingProperty = FALSE
  /\ customProperties = {}
  /\ propertiesToDelete = <<>>
  /\ failedDeletions = <<>>
  /\ details = Null
  /\ groups = <<>>
  /\ log = <<>>
  /\ results = <<>>
  /\ protectedSeen = {}
  /\ snapshotFailed = FALSE
  /\ defs0 = defs

\* ------------------------------------------------------- shared helpers

\* A request (or a pause) as the log and the network hold it.
Req(op, target, row) == [op |-> op, target |-> target, row |-> row, run |-> run]

\* Mutant of Send: the request goes out while the one before it is still
\* unanswered (a call that is not awaited).
Send_KeepsAnswered(answered, r) ==
  /\ inflight' = inflight \cup {r}
  /\ log' = Append(log, r)

\* The synchronous code ends by issuing request r; answered is the set of
\* requests whose response this resumption consumed.
Send(answered, r) ==
  /\ inflight' = (inflight \ answered) \cup {r}
  /\ log' = Append(log, r)

\* Mutant of Pause: the timer runs only after a delete request (it sits
\* inside the branch of line 255 instead of after it).
Pause_OnlyAfterDelete(answered, name, row) ==
  /\ inflight' = inflight \ answered
  /\ log' = IF pc = "delete_request"
              THEN Append(log, Req("pause", name, row))
              ELSE log

\* Mutant of Pause: the loop goes on without the timer of line 262.
Pause_Skipped(answered, name, row) ==
  /\ inflight' = inflight \ answered
  /\ log' = log

\* The synchronous code ends at the timer of line 262: nothing is sent.
Pause(answered, name, row) ==
  /\ inflight' = inflight \ answered
  /\ log' = Append(log, Req("pause", name, row))

\* The synchronous code ends without issuing a request.
NoSend(answered) ==
  /\ inflight' = inflight \ answered
  /\ log' = log

\* The request the script is awaiting (axios calls are awaited one by one).
Awaited == CHOOSE r \in inflight : TRUE

\* row['Hubspot defined'] !== 'true'
IsTargetRow(row) == row.hubspotDefined # "true"

\* Mutant of SetAdd: an array push, which keeps duplicates.
SetAdd_KeepsDuplicates(s, x) == Append(s, x)

\* Mutant of SetAdd: a new member goes to the front (an unshift).
SetAdd_Prepends(s, x) == IF x \in Range(s) THEN s ELSE <<x>> \o s

\* Set.prototype.add on a Set kept in insertion order.
SetAdd(s, x) == IF x \in Range(s) THEN s ELSE Append(s, x)

\* The workflow's last statement: console.log('... completed.').
Complete ==
  /\ pc' = "completed"
  /\ exitCode' = 0

\* ------------------------------------------------------------------ main

\* Mutant of Main: the check of lines 325-328 for the file path is missing.
Main_NoPathCheck ==
  /\ pc = "main"
  /\ cursor' = 0
  /\ UNCHANGED <<inputVars, snapshotFailed, defs, grps, run, idx, importVars,
                 deleteVars, groups>>
  /\ IF ~apiKey \/ command \notin Commands
       THEN /\ pc' = "exited"
            /\ exitCode' = 1
            /\ NoSend({})
       ELSE /\ exitCode' = exitCode
            /\ CASE command = "import" ->
                      /\ pc' = "import_reading"
                      /\ NoSend({})
                 [] command = "delete-properties" ->
                      /\ pc' = "delete_snapshot"
                      /\ Send({}, Req("listDefinitions", "", 0))
                 [] command = "delete-groups" ->
                      /\ pc' = "groups_reading"
                      /\ NoSend({})

\* Lines 54-59 and 321-345: the credential check, the path check, the switch.
Main ==
  /\ pc = "main"
  /\ cursor' = 0
  /\ UNCHANGED <<inputVars, snapshotFailed, defs, grps, run, idx, importVars, deleteVars, groups>>
  /\ IF ~apiKey \/ ~hasPath \/ command \notin Commands
       THEN /\ pc' = "exited"
            /\ exitCode' = 1
            /\ NoSend({})
       ELSE /\ exitCode' = exitCode
            /\ CASE command = "import" ->
                      /\ pc' = "import_reading"
                      /\ NoSend({})
                 [] command = "delete-properties" ->
                      /\ pc' = "delete_snapshot"
                      /\ Send({}, Req("listDefinitions", "", 0))
                 [] command = "delete-groups" ->
                      /\ pc' = "groups_reading"
                      /\ NoSend({})

\* ------------------------------------------------------ importProperties

\* properties.push({...}) of lines 196-209, by the fields the model follows.
ToProperty(row) ==
  [name |-> row.name, groupName |-> row.groupName, options |-> row.options]

\* Mutant of OptionsThrow: the options text is sent as it is, never parsed.
OptionsThrow_Never(prop) == FALSE

\* prop.options ? JSON.parse(prop.options) : undefined  throws (line 143).
OptionsThrow(prop) == Truthy(prop.options) /\ ~JsonParses(prop.options)

\* Mutant of Method: the request is always an update.
Method_AlwaysPut(existing) == "updateDefinition"

\* Mutant of Method: the request is always a create.
Method_AlwaysPost(existing) == "createDefinition"

\* const method = existingProperty ? 'put' : 'post' (lines 129-130).
Method(existing) == IF existing THEN "updateDefinition" ELSE "createDefinition"

\* response.data.some((group) => group.name === groupName) (lines 71-73).
GroupExists(data, groupName) == groupName \in data

\* The store after a create or an update of `name` was accepted.
ApplyRequest(op, name) ==
  IF op = "createDefinition"
    THEN [defs EXCEPT ![name] =
            IF @.count = 0 THEN Custom ELSE [@ EXCEPT !.count = @ + 1]]
    ELSE defs

\* Mutant of ImportIteration: the loop ends when the row before failed.
ImportIteration_AbortsOnFailure(answered, k) ==
  /\ idx' = k
  /\ IF k > Len(properties) \/ (k > 1 /\ ~results'[k - 1])
       THEN /\ Complete
            /\ NoSend(answered)
       ELSE /\ pc' = "ensureGroup_list"
            /\ exitCode' = exitCode
            /\ Send(answered, Req("listGroups", properties[k].groupName, k))

\* The head of the for-loop of lines 217-223 at position k: the next row's
\* createGroupIfNotExists issues its GET, or the loop is over.
ImportIteration(answered, k) ==
  /\ idx' = k
  /\ IF k > Len(properties)
       THEN /\ Complete
            /\ NoSend(answered)
       ELSE /\ pc' = "ensureGroup_list"
            /\ exitCode' = exitCode
            /\ Send(answered, Req("listGroups", properties[k].groupName, k))

\* createGroupIfNotExists returned: createOrUpdateProperty starts with the
\* lookup of line 128.
EnterCreateOrUpdate(answered) ==
  /\ pc' = "createOrUpdate_lookup"
  /\ Send(answered, Req("getDefinition", properties[idx].name, idx))

\* The 'data' handler of lines 194-211.
ImportOnData ==
  /\ pc = "import_reading"
  /\ cursor < Len(csv)
  /\ cursor' = cursor + 1
  /\ properties' = IF IsTargetRow(csv[cursor + 1])
                     THEN Append(properties, ToProperty(csv[cursor + 1]))
                     ELSE properties
  /\ UNCHANGED <<inputVars, snapshotFailed, defs, grps, pc, exitCode, inflight, run, idx,
                 existingProperty, results, deleteVars, groups, log>>

\* The 'end' event resolves the promise of line 191; the loop starts.
ImportOnEnd ==
  /\ pc = "import_reading"
  /\ cursor = Len(csv)
  /\ ImportIteration({}, 1)
  /\ UNCHANGED <<inputVars, snapshotFailed, defs, grps, run, cursor, importVars, deleteVars, groups>>

\* The GET of line 67 is answered (or throws into the catch of line 88).
ListGroupsResponse ==
  /\ pc = "ensureGroup_list"
  /\ \E ok \in Outcomes :
       IF ok /\ ~GroupExists(grps, properties[idx].groupName)
         THEN /\ pc' = "ensureGroup_create"
              /\ Send({Awaited}, Req("createGroup", properties[idx].groupName, idx))
         ELSE EnterCreateOrUpdate({Awaited})
  /\ UNCHANGED <<inputVars, snapshotFailed, defs, grps, exitCode, run, cursor, idx, importVars,
                 deleteVars, groups>>

\* The POST of line 76 is answered (or throws into the catch of line 88).
CreateGroupResponse ==
  /\ pc = "ensureGroup_create"
  /\ \E ok \in Outcomes :
       grps' = IF ok THEN grps \cup {properties[idx].groupName} ELSE grps
  /\ EnterCreateOrUpdate({Awaited})
  /\ UNCHANGED <<inputVars, snapshotFailed, defs, exitCode, run, cursor, idx, importVars,
                 deleteVars, groups>>

\* getPropertyDetails returned into line 128; lines 129-149 build the request.
\* JSON.parse runs while the argument of axios() is built: when it throws, no
\* request leaves and the catch of line 154 returns false.
LookupResponse ==
  /\ pc = "createOrUpdate_lookup"
  /\ \E ok \in Outcomes :
       LET found == ok /\ defs[properties[idx].name].count > 0 IN
       /\ existingProperty' = found
       /\ IF OptionsThrow(properties[idx])
            THEN /\ results' = Append(results, FALSE)
                 /\ ImportIteration({Awaited}, idx + 1)
            ELSE /\ results' = results
                 /\ pc' = "createOrUpdate_request"
                 /\ exitCode' = exitCode
                 /\ idx' = idx
                 /\ Send({Awaited}, Req(Method(found), properties[idx].name, idx))
  /\ UNCHANGED <<inputVars, snapshotFailed, defs, grps, run, cursor, properties, deleteVars, groups>>

\* The request of line 132 is answered (return true) or throws (return false).
RequestResponse ==
  /\ pc = "createOrUpdate_request"
  /\ \E ok \in Outcomes :
       /\ defs' = IF ok THEN ApplyRequest(Awaited.op, Awaited.target) ELSE defs
       /\ results' = Append(results, ok)
  /\ ImportIteration({Awaited}, idx + 1)
  /\ UNCHANGED <<inputVars, snapshotFailed, grps, run, cursor, properties, existingProperty,
                 deleteVars, groups>>

\* The script is started again on the same file against the same store.
Rerun ==
  /\ pc = "completed"
  /\ run < MaxRuns
  /\ run' = run + 1
  /\ pc' = "main"
  /\ exitCode' = -1
  /\ cursor' = 0
  /\ idx' = 0
  /\ properties' = <<>>
  /\ existingProperty' = FALSE
  /\ results' = <<>>
  /\ UNCHANGED <<inputVars, snapshotFailed, defs, grps, inflight, deleteVars, groups, log>>

ImportStep ==
  \/ ImportOnData
  \/ ImportOnEnd
  \/ ListGroupsResponse
  \/ CreateGroupResponse
  \/ LookupResponse
  \/ RequestResponse

InitImport ==
  /\ Init
  /\ apiKey
  /\ hasPath
  /\ command = "import"

NextImport == Main \/ ImportStep

SpecImport == InitImport /\ [][NextImport]_vars

\* ----------------------------------------------- deletePropertiesFromCSV

\* response.data.filter((prop) => !prop.hubspotDefined) (lines 102-104), as
\* the set of the names the list holds.
CustomNames(data) ==
  { n \in PropNames : data[n].count > 0 /\ ~data[n].hubspotDefined }

\* Mutant of InSnapshot: the snapshot is not consulted.
InSnapshot_Always(snapshot, propName) == TRUE

\* customProperties.some((prop) => prop.name === propName) (line 253).
InSnapshot(snapshot, propName) == propName \in snapshot

\* Mutant of Deletable: the readOnly flag is not looked at.
Deletable_IgnoresReadOnly(d) == ~d.isNull

\* details && !details.readOnly (line 255).
Deletable(d) == ~d.isNull /\ ~d.readOnly

\* The for-loop of lines 249-267 from position k: names missing from the
\* snapshot are passed over without an await; the first one the snapshot
\* holds is the next to be fetched.
\* Mutant of NextTarget: the loop does not pass over names the snapshot
\* lacks (the test of line 253 is missing).
NextTarget_NoSkip(targets, snapshot, k) == k

RECURSIVE NextTarget(_, _, _)
NextTarget(targets, snapshot, k) ==
  IF k > Len(targets) \/ InSnapshot(snapshot, targets[k])
    THEN k
    ELSE NextTarget(targets, snapshot, k + 1)

\* Mutant of DeleteIteration: a name missing from the snapshot ends the loop
\* (a break where the code goes on to the next name).
DeleteIteration_StopsAtMissing(answered, k) ==
  /\ idx' = k
  /\ IF k > Len(propertiesToDelete) \/ propertiesToDelete[k] \notin customProperties
       THEN /\ Complete
            /\ NoSend(answered)
       ELSE /\ pc' = "delete_details"
            /\ exitCode' = exitCode
            /\ Send(answered, Req("getDefinition", propertiesToDelete[k], k))

DeleteIteration(answered, k) ==
  LET j == NextTarget(propertiesToDelete, customProperties, k) IN
  /\ idx' = j
  /\ IF j > Len(propertiesToDelete)
       THEN /\ Complete
            /\ NoSend(answered)
       ELSE /\ pc' = "delete_details"
            /\ exitCode' = exitCode
            /\ Send(answered, Req("getDefinition", propertiesToDelete[j], j))

\* getAllCustomProperties returned into line 231 (an error gives []).
ListDefinitionsResponse ==
  /\ pc = "delete_snapshot"
  /\ \E ok \in Outcomes :
       /\ customProperties' = IF ok THEN CustomNames(defs) ELSE {}
       /\ snapshotFailed' = ~ok
  /\ pc' = "delete_reading"
  /\ NoSend({Awaited})
  /\ UNCHANGED <<inputVars, defs, grps, exitCode, run, cursor, idx, importVars,
                 propertiesToDelete, failedDeletions, details, protectedSeen,
                 groups>>

\* The 'data' handler of lines 236-240.
DeleteOnData ==
  /\ pc = "delete_reading"
  /\ cursor < Len(csv)
  /\ cursor' = cursor + 1
  /\ propertiesToDelete' = IF IsTargetRow(csv[cursor + 1])
                             THEN SetAdd(propertiesToDelete, csv[cursor + 1].name)
                             ELSE propertiesToDelete
  /\ UNCHANGED <<inputVars, snapshotFailed, defs, grps, pc, exitCode, inflight, run, idx,
                 importVars, customProperties, failedDeletions, details,
                 protectedSeen, groups, log>>

\* The 'end' event resolves the promise of line 233; the loop starts.
DeleteOnEnd ==
  /\ pc = "delete_reading"
  /\ cursor = Len(csv)
  /\ DeleteIteration({}, 1)
  /\ UNCHANGED <<inputVars, snapshotFailed, defs, grps, run, cursor, importVars, deleteVars, groups>>

\* Mutant of DetailsResponse: line 260 is missing, a name skipped for a
\* failed fetch or a readOnly flag is not recorded.
DetailsResponse_DropsSkipped ==
  /\ pc = "delete_details"
  /\ \E ok \in Outcomes :
       LET name == propertiesToDelete[idx]
           d == IF ok /\ defs[name].count > 0 THEN Details(defs[name]) ELSE Null
       IN
       /\ details' = d
       /\ protectedSeen' = IF ~d.isNull /\ d.readOnly
                             THEN protectedSeen \cup {name}
                             ELSE protectedSeen
       /\ failedDeletions' = failedDeletions
       /\ IF Deletable(d)
            THEN /\ pc' = "delete_request"
                 /\ Send({Awaited}, Req("deleteDefinition", name, idx))
            ELSE /\ pc' = "delete_pause"
                 /\ Pause({Awaited}, name, idx)
  /\ UNCHANGED <<inputVars, snapshotFailed, defs, grps, exitCode, run, cursor, idx, importVars,
                 customProperties, propertiesToDelete, groups>>

\* getPropertyDetails returned into line 254; lines 255-262 up to the await.
DetailsResponse ==
  /\ pc = "delete_details"
  /\ \E ok \in Outcomes :
       LET name == propertiesToDelete[idx]
           d == IF ok /\ defs[name].count > 0 THEN Details(defs[name]) ELSE Null
       IN
       /\ details' = d
       /\ protectedSeen' = IF ~d.isNull /\ d.readOnly
                             THEN protectedSeen \cup {name}
                             ELSE protectedSeen
       /\ IF Deletable(d)
            THEN /\ pc' = "delete_request"
                 /\ failedDeletions' = failedDeletions
                 /\ Send({Awaited}, Req("deleteDefinition", name, idx))
            ELSE /\ pc' = "delete_pause"
                 /\ failedDeletions' = Append(failedDeletions, name)
                 /\ Pause({Awaited}, name, idx)
  /\ UNCHANGED <<inputVars, snapshotFailed, defs, grps, exitCode, run, cursor, idx, importVars,
                 customProperties, propertiesToDelete, groups>>

\* Mutant of DeletePropertyResponse: line 257 is missing, a failed delete is
\* not recorded.
DeletePropertyResponse_DropsFailure ==
  /\ pc = "delete_request"
  /\ \E ok \in Outcomes :
       defs' = IF ok THEN [defs EXCEPT ![Awaited.target] = Absent] ELSE defs
  /\ pc' = "delete_pause"
  /\ Pause({Awaited}, Awaited.target, idx)
  /\ UNCHANGED <<inputVars, snapshotFailed, grps, exitCode, run, cursor, idx,
                 importVars, deleteVars, groups>>

\* deleteProperty returned into line 256; line 257, then the timer of 262.
DeletePropertyResponse ==
  /\ pc = "delete_request"
  /\ \E ok \in Outcomes :
       /\ defs' = IF ok THEN [defs EXCEPT ![Awaited.target] = Absent] ELSE defs
       /\ failedDeletions' = IF ok THEN failedDeletions
                                   ELSE Append(failedDeletions, Awaited.target)
  /\ pc' = "delete_pause"
  /\ Pause({Awaited}, Awaited.target, idx)
  /\ UNCHANGED <<inputVars, snapshotFailed, grps, exitCode, run, cursor, idx, importVars,
                 customProperties, propertiesToDelete, details, protectedSeen,
                 groups>>

\* The timer of line 262 fires; the loop goes on.
PauseElapsed ==
  /\ pc = "delete_pause"
  /\ DeleteIteration({}, idx + 1)
  /\ UNCHANGED <<inputVars, snapshotFailed, defs, grps, run, cursor, importVars, deleteVars, groups>>

DeleteStep ==
  \/ ListDefinitionsResponse
  \/ DeleteOnData
  \/ DeleteOnEnd
  \/ DetailsResponse
  \/ DeletePropertyResponse
  \/ PauseElapsed

InitDelete ==
  /\ Init
  /\ apiKey
  /\ hasPath
  /\ command = "delete-properties"

NextDelete == Main \/ DeleteStep

SpecDelete == InitDelete /\ [][NextDelete]_vars

\* --------------------------------------------------- deleteGroupsFromCSV

\* The for-loop of lines 309-315 at position k.
GroupIteration(answered, k) ==
  /\ idx' = k
  /\ IF k > Len(groups)
       THEN /\ Complete
            /\ NoSend(answered)
       ELSE /\ pc' = "groups_delete"
            /\ exitCode' = exitCode
            /\ Send(answered, Req("deleteGroup", groups[k], k))

\* Mutant of AddGroupOfRow: the built-in filter of the other two workflows.
AddGroupOfRow_SkipsBuiltIn(s, row) ==
  IF IsTargetRow(row) THEN SetAdd(s, row.groupName) ELSE s

\* groups.add(row['Group name']) of lines 300-302: every row counts.
AddGroupOfRow(s, row) == SetAdd(s, row.groupName)

GroupsOnData ==
  /\ pc = "groups_reading"
  /\ cursor < Len(csv)
  /\ cursor' = cursor + 1
  /\ groups' = AddGroupOfRow(groups, csv[cursor + 1])
  /\ UNCHANGED <<inputVars, snapshotFailed, defs, grps, pc, exitCode, inflight, run, idx,
                 importVars, deleteVars, log>>

\* The 'end' event resolves the promise of line 297; the loop starts.
GroupsOnEnd ==
  /\ pc = "groups_reading"
  /\ cursor = Len(csv)
  /\ GroupIteration({}, 1)
  /\ UNCHANGED <<inputVars, snapshotFailed, defs, grps, run, cursor, importVars, deleteVars, groups>>

\* deleteGroup returned into line 313 (its catch swallows a failure).
DeleteGroupResponse ==
  /\ pc = "groups_delete"
  /\ \E ok \in Outcomes :
       grps' = IF ok THEN grps \ {Awaited.target} ELSE grps
  /\ GroupIteration({Awaited}, idx + 1)
  /\ UNCHANGED <<inputVars, snapshotFailed, defs, run, cursor, importVars, deleteVars, groups>>

GroupsStep ==
  \/ GroupsOnData
  \/ GroupsOnEnd
  \/ DeleteGroupResponse

InitGroups ==
  /\ Init
  /\ apiKey
  /\ hasPath
  /\ command = "delete-groups"

NextGroups == Main \/ GroupsStep

SpecGroups == InitGroups /\ [][NextGroups]_vars

\* ------------------------------------------------------ the whole script

Next == Main \/ ImportStep \/ DeleteStep \/ GroupsStep

Spec == Init /\ [][Next]_vars

\* The whole script when every await is eventually resumed: axios settles
\* every call (a response or an error), the stream emits its rows and its
\* end, and the timer fires.
SpecFair == Init /\ [][Next]_vars /\ WF_vars(Next)

\* The import run MaxRuns times on one file, against a store that answers
\* every call.
InitTwice ==
  /\ InitImport
  /\ reliable

NextTwice == NextImport \/ Rerun

SpecTwice == InitTwice /\ [][NextTwice]_vars

\* ================================================================ claims

\* The rows of the file that are not flagged built-in, in file order.
Unflagged == SelectSeq(csv, LAMBDA row : row.hubspotDefined # "true")

\* The 'Options' text of a row is one JSON.parse rejects.
Malformed(row) == row.options = "["

Mutations == {"createDefinition", "updateDefinition"}
GroupCalls == {"listGroups", "createGroup"}

\* Positions of the log at which run r issued a request of ops for row k.
Issued(ops, k, r) ==
  { m \in DOMAIN log : log[m].op \in ops /\ log[m].row = k /\ log[m].run = r }

\* Positions of the log at which a request of ops for target t was issued.
IssuedFor(ops, t) ==
  { m \in DOMAIN log : log[m].op \in ops /\ log[m].target = t }

\* The for-loop of the running workflow has left position k behind.
Passed(k) == pc = "completed" \/ (pc \notin {"main", "import_reading"} /\ idx > k)

\* C1 as stated: when the import has completed, every row not flagged
\* built-in, a row with a malformed options value included, has had exactly
\* one create-or-update request.
C1_OnePerRowEvenMalformed ==
  pc = "completed" =>
    \A k \in DOMAIN Unflagged : Cardinality(Issued(Mutations, k, run)) = 1

\* C1 amended: properties holds the rows not flagged built-in, in order; a
\* row whose options value is empty or parses gets exactly one
\* create-or-update request, addressed to its name, and a row whose options
\* value is malformed gets none; the request is issued after the requests of
\* createGroupIfNotExists for that row's group, none of which is still
\* unanswered, whatever the remote calls answered.
C1_OnePerWellFormedRow ==
  /\ Len(properties) <= Len(Unflagged)
  /\ pc \notin {"main", "import_reading"} => Len(properties) = Len(Unflagged)
  /\ \A k \in DOMAIN properties :
       /\ properties[k].name = Unflagged[k].name
       /\ properties[k].groupName = Unflagged[k].groupName
       /\ properties[k].options = Unflagged[k].options
  /\ \A k \in DOMAIN Unflagged :
       /\ Cardinality(Issued(Mutations, k, run)) <= 1
       /\ Malformed(Unflagged[k]) => Issued(Mutations, k, run) = {}
       /\ Passed(k) /\ ~Malformed(Unflagged[k]) =>
            Cardinality(Issued(Mutations, k, run)) = 1
       /\ \A m \in Issued(Mutations, k, run) :
            /\ log[m].target = Unflagged[k].name
            /\ \E j \in Issued({"listGroups"}, k, run) :
                 j < m /\ log[j].target = Unflagged[k].groupName
            /\ \A j \in Issued(GroupCalls, k, run) : j < m
  /\ \A r \in inflight : r.op \in Mutations => inflight = {r}

\* C1 witness: a completed import of a file with a malformed row, which got
\* no request, and a well-formed row, which got its one request.
C1_Witness ==
  /\ pc = "completed"
  /\ \E k \in DOMAIN Unflagged :
       Malformed(Unflagged[k]) /\ Issued(Mutations, k, run) = {}
  /\ \E k \in DOMAIN Unflagged :
       ~Malformed(Unflagged[k]) /\ Cardinality(Issued(Mutations, k, run)) = 1

\* C2 as stated: a create request is in flight only for a name no remote
\* definition carries, an update request only for a name one carries (a
\* failed lookup of an existing definition must not select the create path).
C2_CreateIffAbsent ==
  \A r \in inflight :
    /\ r.op = "createDefinition" => defs[r.target].count = 0
    /\ r.op = "updateDefinition" => defs[r.target].count > 0

\* C3 as stated: while a create or update request is in flight, the group
\* its definition names exists in the remote store, also when a group
\* request failed.
C3_GroupExistsAtRequest ==
  \A r \in inflight :
    r.op \in Mutations => properties[r.row].groupName \in grps

\* C4 as stated: no update and no delete request is ever in flight for a
\* definition that is built-in in the remote store.
C4_NoBuiltInMutation ==
  \A r \in inflight :
    r.op \in {"updateDefinition", "deleteDefinition"} =>
      ~defs[r.target].hubspotDefined

\* C5: the Batch Deleter never issues a delete request for a name whose
\* fetched details had readOnly true, and when the run has completed every
\* such name is in failedDeletions.
C5_ReadOnlyNeverDeleted ==
  /\ \A n \in protectedSeen : IssuedFor({"deleteDefinition"}, n) = {}
  /\ pc = "completed" => protectedSeen \subseteq Range(failedDeletions)

\* C5 witness: a completed deletion run that fetched a read-only definition.
C5_Witness ==
  /\ command = "delete-properties"
  /\ pc = "completed"
  /\ protectedSeen # {}

\* C6: the Batch Deleter issues at most one delete request and at most one
\* details fetch per name, however many unflagged rows carry the name.
C6_OneAttemptPerName ==
  \A n \in PropNames :
    /\ Cardinality(IssuedFor({"deleteDefinition"}, n)) <= 1
    /\ Cardinality(IssuedFor({"getDefinition"}, n)) <= 1

\* C6 witness: a completed deletion run over a file in which two unflagged
\* rows carry one name, for which the one delete request was issued.
C6_Witness ==
  /\ command = "delete-properties"
  /\ pc = "completed"
  /\ \E i, j \in DOMAIN Unflagged :
       /\ i < j
       /\ Unflagged[i].name = Unflagged[j].name
       /\ Cardinality(IssuedFor({"deleteDefinition"}, Unflagged[i].name)) = 1

\* C7: in the Batch Deleter a target name the snapshot does not hold gets
\* no details fetch and no delete request and is not in failedDeletions.
C7_NotInSnapshotSkipped ==
  \A k \in DOMAIN propertiesToDelete :
    propertiesToDelete[k] \notin customProperties =>
      /\ IssuedFor({"getDefinition", "deleteDefinition"}, propertiesToDelete[k]) = {}
      /\ propertiesToDelete[k] \notin Range(failedDeletions)

\* C7 witness: a completed deletion run with a target name missing from the
\* snapshot and passed over, and another target that was fetched.
C7_Witness ==
  /\ command = "delete-properties"
  /\ pc = "completed"
  /\ \E k \in DOMAIN propertiesToDelete :
       propertiesToDelete[k] \notin customProperties
  /\ \E k \in DOMAIN propertiesToDelete :
       IssuedFor({"getDefinition"}, propertiesToDelete[k]) # {}

\* The group names of the rows of the file, flagged rows included.
GroupsOfFile == { csv[k].groupName : k \in DOMAIN csv }

\* C8: the Grouping Deleter never issues two delete requests for one group
\* name nor one for a name the file does not hold, and when the run has
\* completed it has issued exactly one for every group name of any row of
\* the file, flagged built-in or not, whatever the earlier deletions
\* answered.
C8_OneDeletePerGroup ==
  /\ \A g \in GroupNames :
       /\ Cardinality(IssuedFor({"deleteGroup"}, g)) <= 1
       /\ g \notin GroupsOfFile => IssuedFor({"deleteGroup"}, g) = {}
  /\ pc = "completed" =>
       \A g \in GroupsOfFile : Cardinality(IssuedFor({"deleteGroup"}, g)) = 1

\* C8 witness: a completed group deletion run in which the first deletion
\* failed (the group is still there) and the second group, named only by a
\* row flagged built-in, got its delete request.
C8_Witness ==
  /\ command = "delete-groups"
  /\ pc = "completed"
  /\ Len(groups) = 2
  /\ groups[1] \in grps
  /\ \A k \in DOMAIN csv :
       csv[k].groupName = groups[2] => csv[k].hubspotDefined = "true"
  /\ IssuedFor({"deleteGroup"}, groups[2]) # {}

\* C9: in the Reconciler no failure stops the batch: once the loop has
\* passed a row, that row has had its own listGroups request for its group
\* and its own lookup of its name, and its create-or-update request unless
\* its own options value is malformed, whatever happened to the rows before.
C9_LaterRowsProcessed ==
  \A k \in DOMAIN Unflagged :
    Passed(k) =>
      /\ Cardinality(Issued({"listGroups"}, k, run)) = 1
      /\ \A m \in Issued({"listGroups"}, k, run) :
           log[m].target = Unflagged[k].groupName
      /\ Cardinality(Issued({"getDefinition"}, k, run)) = 1
      /\ \A m \in Issued({"getDefinition"}, k, run) :
           log[m].target = Unflagged[k].name
      /\ ~Malformed(Unflagged[k]) =>
           Cardinality(Issued(Mutations, k, run)) = 1
      /\ Len(results) >= k

\* C9 witness: a completed import whose first row failed (a malformed
\* options value or a failed request) and whose second row still got its
\* create-or-update request, which succeeded.
C9_Witness ==
  /\ command = "import"
  /\ pc = "completed"
  /\ Len(results) = 2
  /\ ~results[1]
  /\ results[2]
  /\ Issued(Mutations, 2, run) # {}

\* C10: when the import is run again on the same file against a store that
\* answers every call, a run after the first issues no create request, it
\* issues an update request for every row the first run created or updated
\* (every unflagged row whose options value is not malformed), and no two
\* remote definitions carry the same name.
C10_SecondRunUpdates ==
  /\ \A n \in PropNames : defs[n].count <= 1
  /\ \A m \in DOMAIN log :
       log[m].run >= 2 => log[m].op # "createDefinition"
  /\ run >= 2 /\ pc = "completed" =>
       \A k \in DOMAIN Unflagged :
         /\ Issued(Mutations, k, 1) # {} <=> ~Malformed(Unflagged[k])
         /\ Issued(Mutations, k, 1) # {} =>
              /\ Cardinality(Issued({"updateDefinition"}, k, run)) = 1
              /\ \A m \in Issued({"updateDefinition"}, k, run) :
                   log[m].target = Unflagged[k].name

\* C10 witness: the second run has completed; the first run created a
\* definition and the second run updated it.
C10_Witness ==
  /\ run = 2
  /\ pc = "completed"
  /\ \E k \in DOMAIN Unflagged :
       /\ Issued({"createDefinition"}, k, 1) # {}
       /\ Issued({"updateDefinition"}, k, 2) # {}

\* The places each workflow suspends at, and the requests each one issues.
PlacesOf(cmd) ==
  CASE cmd = "import" ->
         {"import_reading", "ensureGroup_list", "ensureGroup_create",
          "createOrUpdate_lookup", "createOrUpdate_request", "completed"}
    [] cmd = "delete-properties" ->
         {"delete_snapshot", "delete_reading", "delete_details",
          "delete_request", "delete_pause", "completed"}
    [] cmd = "delete-groups" ->
         {"groups_reading", "groups_delete", "completed"}
    [] OTHER -> {}

CallsOf(cmd) ==
  CASE cmd = "import" ->
         {"listGroups", "createGroup", "getDefinition", "createDefinition",
          "updateDefinition"}
    [] cmd = "delete-properties" ->
         {"listDefinitions", "getDefinition", "deleteDefinition", "pause"}
    [] cmd = "delete-groups" -> {"deleteGroup"}
    [] OTHER -> {}

\* The credential, the path and the operation selector are all usable.
ConfigValid ==
  /\ apiKey
  /\ hasPath
  /\ command \in {"import", "delete-properties", "delete-groups"}

\* C11: once main has run, a missing credential, a missing path or an
\* unknown selector has ended the process with status 1 and no request was
\* ever issued; with all three valid the process has not exited with an
\* error and exactly the selected workflow runs: the script is at one of its
\* awaits, every request is one of its requests, and the state of the other
\* two workflows is untouched.
C11_ConfigErrorsExitBeforeAnyCall ==
  pc # "main" =>
    /\ ~ConfigValid =>
         /\ pc = "exited"
         /\ exitCode = 1
         /\ log = <<>>
         /\ inflight = {}
    /\ ConfigValid =>
         /\ pc \in PlacesOf(command)
         /\ exitCode \in {-1, 0}
         /\ \A m \in DOMAIN log : log[m].op \in CallsOf(command)
         /\ command # "import" => properties = <<>> /\ results = <<>>
         /\ command # "delete-properties" =>
              propertiesToDelete = <<>> /\ failedDeletions = <<>>
         /\ command # "delete-groups" => groups = <<>>

\* C11 witness: the process has exited with status 1 because the path is
\* missing, although the credential and the selector are fine.
C11_Witness ==
  /\ pc = "exited"
  /\ exitCode = 1
  /\ apiKey
  /\ ~hasPath
  /\ command = "import"
  /\ Len(csv) > 0

\* The names of the rows not flagged built-in.
NamesOfFile == { Unflagged[k].name : k \in DOMAIN Unflagged }

\* Every item the completed workflow targets was attempted exactly once: the
\* import called createGroupIfNotExists and createOrUpdateProperty once per
\* unflagged row; the Batch Deleter went through every name of the unflagged
\* rows and fetched every one the snapshot holds once; the Grouping Deleter
\* issued one delete per group name of the file.
AttemptedEachOnce ==
  CASE command = "import" ->
         /\ Len(properties) = Len(Unflagged)
         /\ Len(results) = Len(Unflagged)
         /\ \A k \in DOMAIN Unflagged :
              /\ Cardinality(Issued({"listGroups"}, k, run)) = 1
              /\ Cardinality(Issued({"getDefinition"}, k, run)) = 1
    [] command = "delete-properties" ->
         /\ Range(propertiesToDelete) = NamesOfFile
         /\ idx = Len(propertiesToDelete) + 1
         /\ \A n \in NamesOfFile :
              Cardinality(IssuedFor({"getDefinition"}, n)) =
                IF n \in customProperties THEN 1 ELSE 0
    [] command = "delete-groups" ->
         /\ Range(groups) = GroupsOfFile
         /\ \A g \in GroupsOfFile :
              Cardinality(IssuedFor({"deleteGroup"}, g)) = 1
    [] OTHER -> FALSE

\* C12: when every await is eventually resumed, a workflow that was started
\* reaches its 'completed' log whatever the remote calls answer, and at that
\* point every targeted item has been attempted exactly once.
C12_WorkflowsRunToCompletion ==
  /\ (ConfigValid => <>(pc = "completed"))
  /\ [](pc = "completed" => AttemptedEachOnce)

\* C12 witness: a Batch Deleter run over two names has completed although
\* one of the names failed.
C12_Witness ==
  /\ command = "delete-properties"
  /\ pc = "completed"
  /\ Len(propertiesToDelete) = 2
  /\ Len(failedDeletions) = 1
  /\ ~reliable

\* The first unflagged row that carries name n, the first row of group g.
FirstRowOfName(n) ==
  CHOOSE k \in DOMAIN Unflagged :
    Unflagged[k].name = n /\ \A j \in 1..(k - 1) : Unflagged[j].name # n

FirstRowOfGroup(g) ==
  CHOOSE k \in DOMAIN csv :
    csv[k].groupName = g /\ \A j \in 1..(k - 1) : csv[j].groupName # g

\* C13: remote mutations follow the input order.  In the import the create
\* or update request of a row is addressed to that row's name and comes
\* before every request of a later row; in the Batch Deleter and in the
\* Grouping Deleter the delete requests come in the order in which their
\* names first occur in the file.
C13_MutationsInInputOrder ==
  /\ command = "import" =>
       \A m \in DOMAIN log :
         log[m].op \in Mutations =>
           /\ log[m].target = Unflagged[log[m].row].name
           /\ \A j \in DOMAIN log : log[j].row > log[m].row => m < j
  /\ command = "delete-properties" =>
       \A m, j \in DOMAIN log :
         (m < j /\ log[m].op = "deleteDefinition" /\ log[j].op = "deleteDefinition")
           => FirstRowOfName(log[m].target) < FirstRowOfName(log[j].target)
  /\ command = "delete-groups" =>
       \A m, j \in DOMAIN log :
         (m < j /\ log[m].op = "deleteGroup" /\ log[j].op = "deleteGroup")
           => FirstRowOfGroup(log[m].target) < FirstRowOfGroup(log[j].target)

\* C13 witness: a completed Batch Deleter run that issued two delete
\* requests.
C13_Witness ==
  /\ command = "delete-properties"
  /\ pc = "completed"
  /\ Cardinality({ m \in DOMAIN log : log[m].op = "deleteDefinition" }) = 2

\* C14: in the Batch Deleter every delete request, once answered (success
\* or failure), is followed at once by one throttle pause for the same name,
\* and while the script pauses no request is in flight: the requests for the
\* next name are issued only after the pause.
C14_PauseAfterEveryDelete ==
  /\ \A m \in DOMAIN log :
       log[m].op = "deleteDefinition" =>
         /\ m = Len(log) => pc = "delete_request"
         /\ m < Len(log) =>
              /\ log[m + 1].op = "pause"
              /\ log[m + 1].target = log[m].target
              /\ log[m + 1].row = log[m].row
         /\ Cardinality(Issued({"pause"}, log[m].row, run)) <= 1
  /\ pc = "delete_pause" =>
       /\ inflight = {}
       /\ log[Len(log)].op = "pause"

\* C14 witness: a delete request failed, the pause followed, and the details
\* of the next name were then requested.
C14_Witness ==
  \E m \in DOMAIN log :
    /\ log[m].op = "deleteDefinition"
    /\ log[m].target \in Range(failedDeletions)
    /\ m + 2 \in DOMAIN log
    /\ log[m + 1].op = "pause"
    /\ log[m + 2].op = "getDefinition"
    /\ log[m + 2].target # log[m].target

\* What became of target name n in the Batch Deleter.
DeleteSent(n) == IssuedFor({"deleteDefinition"}, n) # {}
DeleteSucceeded(n) == DeleteSent(n) /\ defs[n].count = 0
FetchedReadOnly(n) == n \in protectedSeen
FetchFailed(n) ==
  /\ IssuedFor({"getDefinition"}, n) # {}
  /\ ~FetchedReadOnly(n)
  /\ ~DeleteSent(n)

\* C15: failedDeletions never holds a name twice, a name the snapshot lacks
\* or a name whose delete request succeeded; when the Batch Deleter has
\* completed it holds exactly the target names of the snapshot whose details
\* fetch failed, whose fetched readOnly flag was true, or whose delete
\* request did not succeed.
C15_FailureListExact ==
  /\ \A i, j \in DOMAIN failedDeletions :
       i # j => failedDeletions[i] # failedDeletions[j]
  /\ \A n \in Range(failedDeletions) :
       n \in customProperties /\ ~DeleteSucceeded(n)
  /\ pc = "completed" =>
       Range(failedDeletions) =
         { n \in Range(propertiesToDelete) \cap customProperties :
             \/ FetchFailed(n)
             \/ FetchedReadOnly(n)
             \/ (DeleteSent(n) /\ ~DeleteSucceeded(n)) }

\* C15 witness: a completed run whose failure list holds one name that was
\* fetched read-only and one whose delete request failed.
C15_Witness ==
  /\ command = "delete-properties"
  /\ pc = "completed"
  /\ \E n, o \in Range(failedDeletions) :
       /\ FetchedReadOnly(n)
       /\ DeleteSent(o)

\* Unflagged rows i < j carry the same name, i is the first row that does,
\* and the store held no definition of that name when the script started.
DuplicateOfAbsent(i, j) ==
  /\ i < j
  /\ Unflagged[i].name = Unflagged[j].name
  /\ \A r \in 1..(i - 1) : Unflagged[r].name # Unflagged[i].name
  /\ defs0[Unflagged[i].name].count = 0

\* A row before j with the name of row j whose create request succeeded.
CreatedBefore(j) ==
  \E r \in 1..(j - 1) :
    /\ Unflagged[r].name = Unflagged[j].name
    /\ Issued({"createDefinition"}, r, run) # {}
    /\ r \in DOMAIN results
    /\ results[r]

\* C16 as stated: of two unflagged rows with one name that is absent
\* remotely at the start, the first has issued a create and the second an
\* update once the loop has passed both.
C16_CreateThenUpdate ==
  \A i, j \in DOMAIN Unflagged :
    DuplicateOfAbsent(i, j) /\ Passed(j) =>
      /\ Issued({"createDefinition"}, i, run) # {}
      /\ Issued({"updateDefinition"}, j, run) # {}

\* C16 amended: of two such rows the first never issues an update and
\* issues a create if its options value is well-formed; the second issues
\* an update only after a create of that name has succeeded, and a create if
\* none has and its options value is well-formed; when every remote call is
\* answered and both options values are well-formed the first row has
\* issued a create and the second an update.
C16_UpdateOnlyAfterSuccessfulCreate ==
  \A i, j \in DOMAIN Unflagged :
    DuplicateOfAbsent(i, j) =>
      /\ Issued({"updateDefinition"}, i, run) = {}
      /\ Passed(i) /\ ~Malformed(Unflagged[i]) =>
           Issued({"createDefinition"}, i, run) # {}
      /\ Issued({"updateDefinition"}, j, run) # {} => CreatedBefore(j)
      /\ Passed(j) /\ ~Malformed(Unflagged[j]) /\ ~CreatedBefore(j) =>
           Issued({"createDefinition"}, j, run) # {}
      /\ Passed(j) /\ reliable /\ ~Malformed(Unflagged[i]) /\ ~Malformed(Unflagged[j]) =>
           /\ Issued({"createDefinition"}, i, run) # {}
           /\ Issued({"updateDefinition"}, j, run) # {}

\* C16 witness: both rows are well-formed, the first created the definition
\* and the second updated it.
C16_Witness ==
  /\ pc = "completed"
  /\ \E i, j \in DOMAIN Unflagged :
       /\ DuplicateOfAbsent(i, j)
       /\ Issued({"createDefinition"}, i, run) # {}
       /\ Issued({"updateDefinition"}, j, run) # {}

\* C17: at most one remote request is in flight at any time, and it is the
\* one issued last: every request issued before it has been answered.
C17_OneRequestInFlight ==
  /\ Cardinality(inflight) <= 1
  /\ \A r \in inflight : r.op # "pause" /\ log # <<>> /\ r = log[Len(log)]
  /\ \A p \in 1..(Len(log) - 1) : log[p] \notin inflight

\* C17 witness: a request is in flight after an earlier one was answered.
C17_Witness ==
  /\ Cardinality(inflight) = 1
  /\ Len(log) >= 2
  /\ log[Len(log) - 1].op # "pause"

\* What each workflow reports when it ends: the Reconciler logs
\* 'Import completed.' and the Grouping Deleter 'Group deletion completed.',
\* neither with a list; the Batch Deleter logs its failedDeletions.
ImportSummary == <<>>
DeleteSummary == failedDeletions
GroupsSummary == <<>>
Summary ==
  CASE command = "import" -> ImportSummary
    [] command = "delete-properties" -> DeleteSummary
    [] command = "delete-groups" -> GroupsSummary
    [] OTHER -> <<>>

\* The items that failed: a row whose createOrUpdateProperty returned false,
\* a snapshot name that was skipped or whose delete request failed, a
\* grouping of the file that its delete request left in place.
ImportFailed == { Unflagged[k].name : k \in { r \in DOMAIN results : ~results[r] } }
DeleteFailed ==
  { n \in Range(propertiesToDelete) \cap customProperties :
      FetchFailed(n) \/ FetchedReadOnly(n) \/ (DeleteSent(n) /\ ~DeleteSucceeded(n)) }
GroupsFailed == { g \in Range(groups) : IssuedFor({"deleteGroup"}, g) # {} /\ g \in grps }
FailedItems ==
  CASE command = "import" -> ImportFailed
    [] command = "delete-properties" -> DeleteFailed
    [] command = "delete-groups" -> GroupsFailed
    [] OTHER -> {}

\* C18 as stated: whichever workflow ran, every item that failed is in the
\* list the workflow reports when it completes.
C18_EveryWorkflowReportsFailures ==
  pc = "completed" => FailedItems \subseteq Range(Summary)

\* C18 amended: the Batch Deleter reports at completion a list holding every
\* name that failed; the Reconciler and the Grouping Deleter report no list,
\* whatever failed.
C18_OnlyDeleterReportsFailures ==
  pc = "completed" =>
    /\ command = "delete-properties" => DeleteFailed \subseteq Range(Summary)
    /\ command \in {"import", "delete-groups"} => Summary = <<>>

\* C18 witness: a completed Batch Deleter run whose report holds a name
\* whose details fetch failed.
C18_Witness ==
  /\ command = "delete-properties"
  /\ pc = "completed"
  /\ \E n \in Range(Summary) : FetchFailed(n)

\* C19: once the list-definitions request of the Batch Deleter has failed the
\* snapshot is empty, the run never issues a details fetch or a delete
\* request and never pauses, its failure list stays empty, it never waits
\* for anything but the input file, and it ends with exit status 0.
C19_FailedSnapshotDeletesNothing ==
  snapshotFailed =>
    /\ customProperties = {}
    /\ \A p \in DOMAIN log : log[p].op = "listDefinitions"
    /\ failedDeletions = <<>>
    /\ inflight = {}
    /\ pc \in {"delete_reading", "completed"}
    /\ pc = "completed" => exitCode = 0

\* C19 witness: the snapshot request failed and the run completed although
\* a target name is a custom definition of the store.
C19_Witness ==
  /\ snapshotFailed
  /\ pc = "completed"
  /\ \E n \in Range(propertiesToDelete) :
       defs[n].count > 0 /\ ~defs[n].hubspotDefined /\ ~defs[n].readOnly

\* C20: the Batch Deleter never pauses twice for one name, and pauses only
\* for a target name of the snapshot whose details were asked for; once the
\* loop has passed a target name it has paused exactly once for it if the
\* snapshot holds it, whether or not a delete request was issued, and not at
\* all if the snapshot lacks it.
C20_OnePausePerSnapshotTarget ==
  /\ \A n \in PropNames :
       /\ Cardinality(IssuedFor({"pause"}, n)) <= 1
       /\ IssuedFor({"pause"}, n) # {} =>
            /\ n \in Range(propertiesToDelete) \cap customProperties
            /\ IssuedFor({"getDefinition"}, n) # {}
  /\ \A k \in DOMAIN propertiesToDelete :
       Passed(k) =>
         Cardinality(IssuedFor({"pause"}, propertiesToDelete[k])) =
           IF propertiesToDelete[k] \in customProperties THEN 1 ELSE 0

\* C20 witness: a completed run that paused for a name it skipped without a
\* delete request and had a target name the snapshot lacks.
C20_Witness ==
  /\ pc = "completed"
  /\ \E n, o \in Range(propertiesToDelete) :
       /\ IssuedFor({"pause"}, n) # {}
       /\ IssuedFor({"deleteDefinition"}, n) = {}
       /\ o \notin customProperties
       /\ ~snapshotFailed

====
